---- MODULE Spec2Model ----
(***************************************************************************)
(* Model of the AIHypeTracker tool functions (multi_tool_agent/agent.py)   *)
(* and of the REST handlers that wrap them (frontend_app.py).              *)
(*                                                                         *)
(* Every tool is a single-pass request/response function, so a state of    *)
(* the model is "the last call": the operation, its inputs (arguments and  *)
(* what the external provider answered), the accesses it made to the       *)
(* provider, and what it returned or raised.                               *)
(*                                                                         *)
(* Representation of Python values:                                        *)
(*   None            [k |-> "null"]                                        *)
(*   a number n      [k |-> "num", v |-> n]                                *)
(*   a number of more than 32 bits                                         *)
(*                   [k |-> "big", neg, hi, lo] = +-(hi * 10^6 + lo)       *)
(*   a percentage    [k |-> "pct", v |-> h]   h hundredths (12.34 = 1234)  *)
(*   a fraction      [k |-> "ratio", v |-> u] u units of 10^-5             *)
(*   float NaN       [k |-> "nan"]                                         *)
(*   a str           [k |-> "str", v |-> <<tokens>>], a sequence of        *)
(*                   characters and of literal chunks of the source        *)
(*   a dict          a function from key strings to values                 *)
(***************************************************************************)
EXTENDS Integers, Sequences, FiniteSets, TLC

VARIABLES op, input, log, result, raised

vars == <<op, input, log, result, raised>>

(***************************************************************************)
(* Bounds of the model.                                                    *)
(***************************************************************************)
MaxTickerLen == 2
\* how far around each threshold of format_currency the values are drawn
NearBy == 2
\* how many different answers the provider gives in a row to ticker.info
MaxAnswers == 2
\* longest sequence of provider answers a direct call of the trading-status
\* tool is driven with
MaxTradingAnswers == 3

(***************************************************************************)
(* Python values.                                                          *)
(***************************************************************************)
None == [k |-> "null"]
Num(n) == [k |-> "num", v |-> n]
Big(neg, hi, lo) == [k |-> "big", neg |-> neg, hi |-> hi, lo |-> lo]
Pct(h) == [k |-> "pct", v |-> h]
Ratio(u) == [k |-> "ratio", v |-> u]
NaN == [k |-> "nan"]
Str(s) == [k |-> "str", v |-> s]

\* bool(x): None, 0, 0.0 and "" are falsy; NaN and every other value truthy
Truthy(x) ==
    CASE x.k = "null" -> FALSE
      [] x.k = "num" -> x.v # 0
      [] x.k = "pct" -> x.v # 0
      [] x.k = "big" -> x.hi # 0 \/ x.lo # 0
      [] x.k = "ratio" -> x.v # 0
      [] x.k = "nan" -> TRUE
      [] x.k = "str" -> x.v # <<>>
      [] OTHER -> TRUE

\* a or b
PyOr(a, b) == IF Truthy(a) THEN a ELSE b

\* dict.get(key) and dict.get(key, default)
Get(d, key) == IF key \in DOMAIN d THEN d[key] ELSE None
GetDefault(d, key, default) == IF key \in DOMAIN d THEN d[key] ELSE default

(***************************************************************************)
(* Strings: sequences of one-character strings; str.upper / str.lower map  *)
(* each cased character and leave every other one alone.                   *)
(***************************************************************************)
LowerAlpha ==
    <<"a", "b", "c", "d", "e", "f", "g", "h", "i", "j", "k", "l", "m",
      "n", "o", "p", "q", "r", "s", "t", "u", "v", "w", "x", "y", "z">>
UpperAlpha ==
    <<"A", "B", "C", "D", "E", "F", "G", "H", "I", "J", "K", "L", "M",
      "N", "O", "P", "Q", "R", "S", "T", "U", "V", "W", "X", "Y", "Z">>

UpperChar(c) ==
    IF \E i \in 1..Len(LowerAlpha) : LowerAlpha[i] = c
    THEN UpperAlpha[CHOOSE i \in 1..Len(LowerAlpha) : LowerAlpha[i] = c]
    ELSE c

LowerChar(c) ==
    IF \E i \in 1..Len(UpperAlpha) : UpperAlpha[i] = c
    THEN LowerAlpha[CHOOSE i \in 1..Len(UpperAlpha) : UpperAlpha[i] = c]
    ELSE c

upper(s) == [i \in 1..Len(s) |-> UpperChar(s[i])]
lower(s) == [i \in 1..Len(s) |-> LowerChar(s[i])]

\* sub in s
Contains(s, sub) ==
    \E i \in 0..(Len(s) - Len(sub)) :
        \A j \in 1..Len(sub) : s[i + j] = sub[j]

\* rounding of the rational a / b (b # 0) to the nearest integer, ties to even
Abs(n) == IF n < 0 THEN -n ELSE n

RoundDiv(a, b) ==
    LET q == (IF b < 0 THEN -a ELSE a) \div Abs(b)
        r == (IF b < 0 THEN -a ELSE a) % Abs(b)
    IN  IF 2 * r > Abs(b) THEN q + 1
        ELSE IF 2 * r < Abs(b) THEN q
        ELSE IF q % 2 = 0 THEN q ELSE q + 1

(***************************************************************************)
(* Outcome of evaluating a piece of Python: a value, or a raised           *)
(* exception carrying str(e).                                              *)
(***************************************************************************)
Return(v) == [exc |-> FALSE, val |-> v]
Raise(msg) == [exc |-> TRUE, msg |-> msg]

(***************************************************************************)
(* Magnitudes.  abs(value) as a pair of limbs hi * 10^6 + lo, so that the  *)
(* thresholds 1e9 and 1e12 of format_currency are within reach.            *)
(***************************************************************************)
Limb == 1000 * 1000

IsNeg(x) == IF x.k = "big" THEN x.neg /\ (x.hi # 0 \/ x.lo # 0) ELSE x.v < 0

AbsLimbs(x) ==
    IF x.k = "big" THEN [hi |-> x.hi, lo |-> x.lo]
    ELSE LET a == IF x.v < 0 THEN -x.v ELSE x.v
         IN  [hi |-> a \div Limb, lo |-> a % Limb]

\* -1, 0, 1 as r is below, at or above h
Cmp(r, h) == IF r < h THEN -1 ELSE IF r = h THEN 0 ELSE 1

\* q + (remainder / divisor) rounded to the nearest integer, ties to even,
\* given q and how the remainder compares with half the divisor
RoundUp(q, c) == IF c > 0 \/ (c = 0 /\ q % 2 = 1) THEN q + 1 ELSE q

\* a formatted string: prefix, optional "-", hundredths rendered with two
\* decimals, suffix
FStr(prefix, negative, hundredths, suffix) ==
    [k |-> "fstr", pre |-> prefix, neg |-> negative, h |-> hundredths, suf |-> suffix]

(***************************************************************************)
(* format_currency (nested in get_company_financial_metrics).              *)
(***************************************************************************)
format_currency_broken(value) ==
    IF value.k = "null" THEN Return(Str(<<"N/A">>))
    ELSE IF value.k \notin {"num", "big", "nan"} THEN
        Raise(<<"bad operand type for abs(): '", value.k, "'">>)
    ELSE IF value.k = "nan" THEN Return(Str(<<"$nan">>))
    ELSE
        LET m == AbsLimbs(value)
            n == IsNeg(value)
        IN  IF m.hi > Limb THEN
                Return(FStr("$", n, RoundUp(m.hi \div 10000,
                    IF m.hi % 10000 = 5000 THEN Cmp(m.lo, 0)
                    ELSE Cmp(m.hi % 10000, 5000)), "T"))
            ELSE IF m.hi >= 1000 THEN
                Return(FStr("$", n, RoundUp(m.hi \div 10,
                    Cmp((m.hi % 10) * Limb + m.lo, 5 * Limb)), "B"))
            ELSE IF m.hi >= 1 THEN
                Return(FStr("$", n, RoundUp(m.hi * 100 + m.lo \div 10000,
                    Cmp(m.lo % 10000, 5000)), "M"))
            ELSE IF m.lo >= 1000 THEN
                Return(FStr("$", n, RoundUp(m.lo \div 10, Cmp(m.lo % 10, 5)), "K"))
            ELSE
                Return(FStr("$", n, m.lo * 100, ""))

format_currency(value) ==
    IF value.k = "null" THEN Return(Str(<<"N/A">>))
    ELSE IF value.k \notin {"num", "big", "nan"} THEN
        \* abs() of a str
        Raise(<<"bad operand type for abs(): '", value.k, "'">>)
    ELSE IF value.k = "nan" THEN
        \* every comparison with NaN is false
        Return(Str(<<"$nan">>))
    ELSE
        LET m == AbsLimbs(value)
            n == IsNeg(value)
        IN  IF m.hi >= Limb THEN
                Return(FStr("$", n, RoundUp(m.hi \div 10000,
                    IF m.hi % 10000 = 5000 THEN Cmp(m.lo, 0)
                    ELSE Cmp(m.hi % 10000, 5000)), "T"))
            ELSE IF m.hi >= 1000 THEN
                Return(FStr("$", n, RoundUp(m.hi \div 10,
                    Cmp((m.hi % 10) * Limb + m.lo, 5 * Limb)), "B"))
            ELSE IF m.hi >= 1 THEN
                Return(FStr("$", n, RoundUp(m.hi * 100 + m.lo \div 10000,
                    Cmp(m.lo % 10000, 5000)), "M"))
            ELSE IF m.lo >= 1000 THEN
                Return(FStr("$", n, RoundUp(m.lo \div 10, Cmp(m.lo % 10, 5)), "K"))
            ELSE
                Return(FStr("$", n, m.lo * 100, ""))

(***************************************************************************)
(* The provider (yfinance).  yf.Ticker(key) is lazy; ticker.info and       *)
(* ticker.financials each query the provider and each may raise.           *)
(*   info        a dict                                                    *)
(*   financials  a table: columns (the fiscal-year labels, most recent     *)
(*               first) and rows, a function from the line-item names of   *)
(*               the index to one cell per column                          *)
(***************************************************************************)
Table(columns, rows) == [columns |-> columns, rows |-> rows]

\* DataFrame.empty: some axis has length 0
empty(financials) == financials.columns = <<>> \/ DOMAIN financials.rows = {}

\* a column label: a Timestamp carries a date, any other label has no .date()
Timestamp(d) == [k |-> "date", v |-> d]

\* float(value)
float(value) ==
    IF value.k \in {"num", "big", "nan"} THEN Return(value)
    ELSE Raise(<<"could not convert to float">>)

\* str(value) = 'nan'
StrIsNan(value) == value.k = "nan" \/ value = Str(<<"n", "a", "n">>)

(***************************************************************************)
(* safe_get_financial (nested in get_company_financial_metrics)            *)
(***************************************************************************)
safe_get_financial_keeps_nan(financials, info, metric_name, source) ==
    IF source = "financials" THEN
        IF metric_name \in DOMAIN financials.rows THEN
            LET value == financials.rows[metric_name][1]
            IN  IF Truthy(value) THEN
                    IF float(value).exc THEN None ELSE float(value).val
                ELSE None
        ELSE None
    ELSE IF source = "info" THEN Get(info, metric_name)
    ELSE None

safe_get_financial(financials, info, metric_name, source) ==
    IF source = "financials" THEN
        IF metric_name \in DOMAIN financials.rows THEN
            \* financials.loc[metric_name, latest_year], latest_year = columns[0]
            LET value == financials.rows[metric_name][1]
            IN  IF Truthy(value) /\ ~StrIsNan(value) THEN
                    \* except: return None
                    IF float(value).exc THEN None ELSE float(value).val
                ELSE None
        ELSE None
    ELSE IF source = "info" THEN Get(info, metric_name)
    ELSE None

\* the line items read from the table, by field of the metrics dict
LineItems ==
    [annual_revenue |-> "Total Revenue",
     cost_of_goods_sold |-> "Cost Of Revenue",
     gross_profit |-> "Gross Profit",
     operating_income |-> "Operating Income",
     net_income |-> "Net Income",
     interest_income |-> "Interest Income",
     interest_expense |-> "Interest Expense",
     net_interest_income |-> "Net Interest Income",
     total_expenses |-> "Total Expenses",
     operating_expenses |-> "Operating Expense",
     ebitda |-> "EBITDA",
     ebit |-> "EBIT"]

\* str(latest_year.date()) if latest_year else None
fiscal_year_end(latest_year) ==
    IF latest_year.k = "date" THEN Return(Str(latest_year.v))
    ELSE IF ~Truthy(latest_year) THEN Return(None)
    ELSE Raise(<<"'", latest_year.k, "' object has no attribute 'date'">>)

\* the metrics dict, agent.py 302-332
metrics_dict(stock_ticker, info, financials) ==
    [f \in DOMAIN LineItems |->
        IF f = "annual_revenue"
        THEN PyOr(safe_get_financial(financials, info, "Total Revenue", "financials"),
                  Get(info, "totalRevenue"))
        ELSE safe_get_financial(financials, info, LineItems[f], "financials")]
    @@ [company_name |-> GetDefault(info, "longName",
                            GetDefault(info, "shortName", Str(stock_ticker))),
        ticker |-> Str(upper(stock_ticker)),
        currency |-> GetDefault(info, "currency", Str(<<"USD">>)),
        fiscal_year_end |-> fiscal_year_end(financials.columns[1]).val,
        market_cap |-> Get(info, "marketCap"),
        enterprise_value |-> Get(info, "enterpriseValue")]

\* round((numerator / annual_revenue) * 100, 2), in hundredths of a percent;
\* the line items and the revenue are numbers of at most 32 bits
margin_truncated(numerator, annual_revenue) ==
    Pct((numerator.v * 10000) \div annual_revenue.v)

margin(numerator, annual_revenue) ==
    Pct(RoundDiv(numerator.v * 10000, annual_revenue.v))

\* annual_revenue and annual_revenue > 0; comparing a str with 0 raises
revenue_positive_nonnull(annual_revenue) ==
    IF ~Truthy(annual_revenue) THEN Return(FALSE)
    ELSE IF annual_revenue.k = "num" THEN Return(TRUE)
    ELSE IF annual_revenue.k = "nan" THEN Return(FALSE)
    ELSE Raise(<<"'>' not supported between instances of '", annual_revenue.k,
                 "' and 'int'">>)

revenue_positive(annual_revenue) ==
    IF ~Truthy(annual_revenue) THEN Return(FALSE)
    ELSE IF annual_revenue.k = "num" THEN Return(annual_revenue.v > 0)
    ELSE IF annual_revenue.k = "nan" THEN Return(FALSE)
    ELSE Raise(<<"'>' not supported between instances of '", annual_revenue.k,
                 "' and 'int'">>)

\* the computed margin fields and the line item each is computed from
MarginOf ==
    [gross_profit_margin_percent |-> "gross_profit",
     operating_profit_margin_percent |-> "operating_income",
     net_profit_margin_percent |-> "net_income",
     ebitda_margin_percent |-> "ebitda"]

\* agent.py 334-361
calculated_margins(metrics) ==
    [f \in {g \in DOMAIN MarginOf :
                /\ revenue_positive(metrics.annual_revenue).val
                /\ Truthy(metrics[MarginOf[g]])} |->
        margin(metrics[MarginOf[f]], metrics.annual_revenue)]

\* round(info.get(key, 0) * 100, 2) if info.get(key) else None
yf_margin_zero_for_missing(info, key) ==
    LET r == GetDefault(info, key, Num(0))
    IN  IF r.k = "null" THEN Return(None)
        ELSE IF r.k = "ratio" THEN Return(Pct(RoundDiv(r.v, 10)))
        ELSE IF r.k = "num" THEN Return(Pct(r.v * 10000))
        ELSE IF r.k = "nan" THEN Return(NaN)
        ELSE Raise(<<"type ", r.k, " doesn't define __round__ method">>)

yf_margin(info, key) ==
    LET r == Get(info, key)
    IN  IF ~Truthy(r) THEN Return(None)
        ELSE IF r.k = "ratio" THEN Return(Pct(RoundDiv(r.v, 10)))
        ELSE IF r.k = "num" THEN Return(Pct(r.v * 10000))
        ELSE IF r.k = "nan" THEN Return(NaN)
        ELSE Raise(<<"type ", r.k, " doesn't define __round__ method">>)

YfMarginOf ==
    [yf_gross_margin_percent |-> "grossMargins",
     yf_operating_margin_percent |-> "operatingMargins",
     yf_profit_margin_percent |-> "profitMargins"]

\* agent.py 363-368
yfinance_margins(info) ==
    [f \in DOMAIN YfMarginOf |-> yf_margin(info, YfMarginOf[f]).val]

\* {**metrics, **calculated_margins, **yfinance_margins}: later keys win
financial_data(metrics, calculated, yfinance) ==
    yfinance @@ calculated @@ metrics

\* f"{value}%" if value else "N/A", value = financial_data.get(key)
percent_or_na(fd, key) ==
    IF Truthy(Get(fd, key))
    THEN FStr("", fd[key].v < 0, Abs(fd[key].v), "%")
    ELSE Str(<<"N/A">>)

\* the currency fields of the summary, in the order they are formatted
SummaryCurrency ==
    <<"market_cap", "annual_revenue", "gross_profit", "operating_income", "net_income">>

\* agent.py 393-404
summary(fd) ==
    [f \in {SummaryCurrency[i] : i \in 1..Len(SummaryCurrency)} |->
        format_currency(fd[f]).val]
    @@ [company |-> fd.company_name,
        ticker |-> fd.ticker,
        gross_margin |-> percent_or_na(fd, "gross_profit_margin_percent"),
        operating_margin |-> percent_or_na(fd, "operating_profit_margin_percent"),
        net_margin |-> percent_or_na(fd, "net_profit_margin_percent")]

(***************************************************************************)
(* json.dumps(financial_data, indent=2, default=str), agent.py 410.  Every *)
(* value of financial_data is a str, an int, a float or None, so default   *)
(* is never called.  The text of the object is held as the text of each    *)
(* member's value, by key; the braces, the quoted keys and the indentation *)
(* carry no value.                                                         *)
(***************************************************************************)
DigitChars == <<"0", "1", "2", "3", "4", "5", "6", "7", "8", "9">>

\* str(n) of a natural number
RECURSIVE NatText(_)
NatText(n) ==
    IF n < 10 THEN <<DigitChars[n + 1]>>
    ELSE NatText(n \div 10) \o <<DigitChars[(n % 10) + 1]>>

\* the last `width` digits of n, zeros included
RECURSIVE PadText(_, _)
PadText(n, width) ==
    IF width = 0 THEN <<>>
    ELSE PadText(n \div 10, width - 1) \o <<DigitChars[(n % 10) + 1]>>

\* the digits after the point of a float with two decimals: repr drops a
\* final zero but keeps one digit
FractionText(cents) ==
    IF cents % 10 = 0 THEN <<DigitChars[(cents \div 10) + 1]>>
    ELSE <<DigitChars[(cents \div 10) + 1], DigitChars[(cents % 10) + 1]>>

\* the text of a number: the digits of an int, the repr of a float.  A float
\* without decimals is written with ".0", which reads back as the same number
\* and is left out.
json_number(x) ==
    CASE x.k = "num" ->
            (IF x.v < 0 THEN <<"-">> ELSE <<>>) \o NatText(Abs(x.v))
      [] x.k = "big" ->
            (IF x.neg THEN <<"-">> ELSE <<>>)
            \o (IF x.hi = 0 THEN NatText(x.lo) ELSE NatText(x.hi) \o PadText(x.lo, 6))
      [] x.k = "pct" ->
            (IF x.v < 0 THEN <<"-">> ELSE <<>>) \o NatText(Abs(x.v) \div 100)
            \o <<".">> \o FractionText(Abs(x.v) % 100)

\* the characters of a string between its quotes
RECURSIVE json_escape(_)
json_escape(s) ==
    IF s = <<>> THEN <<>>
    ELSE (CASE s[1] = "\"" -> <<"\\", "\"">>
            [] s[1] = "\\" -> <<"\\", "\\">>
            [] s[1] = "\n" -> <<"\\", "n">>
            [] OTHER -> <<s[1]>>)
         \o json_escape(Tail(s))

json_token(x) ==
    CASE x.k = "null" -> <<"n", "u", "l", "l">>
      [] x.k = "str" -> <<"\"">> \o json_escape(x.v) \o <<"\"">>
      [] x.k = "nan" -> <<"N", "a", "N">>
      [] OTHER -> json_number(x)

json_dumps(fd) == [f \in DOMAIN fd |-> json_token(fd[f])]

(***************************************************************************)
(* json.loads of the text of one value.  A number is read into its sign,   *)
(* its whole part in two limbs and its hundredths.                         *)
(***************************************************************************)
Decimal(neg, hi, lo, cents) ==
    [k |-> "dec", neg |-> neg, hi |-> hi, lo |-> lo, cents |-> cents]

DigitValue(c) == CHOOSE d \in 0..9 : DigitChars[d + 1] = c

RECURSIVE ParseNat(_, _)
ParseNat(digits, acc) ==
    IF digits = <<>> THEN acc
    ELSE LET lo == acc.lo * 10 + DigitValue(digits[1])
         IN  ParseNat(Tail(digits),
                      [hi |-> acc.hi * 10 + (lo \div Limb), lo |-> lo % Limb])

RECURSIVE json_unescape(_)
json_unescape(t) ==
    IF t = <<>> THEN <<>>
    ELSE IF t[1] = "\\"
    THEN <<IF t[2] = "n" THEN "\n" ELSE t[2]>> \o json_unescape(Tail(Tail(t)))
    ELSE <<t[1]>> \o json_unescape(Tail(t))

json_parse_number(text) ==
    LET neg == text[1] = "-"
        body == IF neg THEN Tail(text) ELSE text
        point == IF \E i \in 1..Len(body) : body[i] = "."
                 THEN CHOOSE i \in 1..Len(body) : body[i] = "."
                 ELSE Len(body) + 1
        whole == ParseNat(SubSeq(body, 1, point - 1), [hi |-> 0, lo |-> 0])
        fraction == SubSeq(body, point + 1, Len(body))
        cents == IF fraction = <<>> THEN 0
                 ELSE IF Len(fraction) = 1 THEN 10 * DigitValue(fraction[1])
                 ELSE 10 * DigitValue(fraction[1]) + DigitValue(fraction[2])
    IN  Decimal(neg, whole.hi, whole.lo, cents)

json_loads(text) ==
    IF text = <<"n", "u", "l", "l">> THEN None
    ELSE IF text = <<"N", "a", "N">> THEN NaN
    ELSE IF text[1] = "\"" THEN Str(json_unescape(SubSeq(text, 2, Len(text) - 1)))
    ELSE json_parse_number(text)

(***************************************************************************)
(* get_company_financial_metrics, agent.py 261-418.  The value is what the *)
(* call leaves behind: the dict it returns, the provider accesses it made  *)
(* (in order) and whether an exception left the function.                  *)
(***************************************************************************)
Outcome(res, accesses, exc) == [result |-> res, log |-> accesses, raised |-> exc]

Access(what, key) == [what |-> what, key |-> key]

\* except Exception as e, agent.py 414-418
metrics_except_reraises(stock_ticker, msg, accesses) ==
    Outcome([status |-> "raised"], accesses, TRUE)

metrics_except(stock_ticker, msg, accesses) ==
    Outcome([status |-> "error",
             error_message |-> <<"Unable to retrieve financial data for '">>
                                \o stock_ticker \o <<"': ">> \o msg],
            accesses, FALSE)

\* agent.py 279-283
no_data(stock_ticker, accesses) ==
    Outcome([status |-> "error",
             error_message |-> <<"No financial data found for ticker '">>
                                \o stock_ticker
                                \o <<"'. Please verify the ticker symbol is correct.">>],
            accesses, FALSE)

\* the first exception raised while the summary's currency fields are formatted
SummaryRaise(fd) ==
    LET bad == {i \in 1..Len(SummaryCurrency) : format_currency(fd[SummaryCurrency[i]]).exc}
    IN  IF bad = {} THEN Return(None)
        ELSE format_currency(fd[SummaryCurrency[CHOOSE i \in bad : \A j \in bad : i <= j]])

\* the first exception raised while the provider's margins are copied
YfRaise(info) ==
    IF yf_margin(info, "grossMargins").exc THEN yf_margin(info, "grossMargins")
    ELSE IF yf_margin(info, "operatingMargins").exc THEN yf_margin(info, "operatingMargins")
    ELSE IF yf_margin(info, "profitMargins").exc THEN yf_margin(info, "profitMargins")
    ELSE Return(None)

\* agent.py 285-412: the provider has answered with a table and a dict
build_metrics(stock_ticker, info, financials, accesses) ==
    LET latest_year == financials.columns[1]
    IN  IF fiscal_year_end(latest_year).exc
        THEN metrics_except(stock_ticker, fiscal_year_end(latest_year).msg, accesses)
        ELSE
        LET metrics == metrics_dict(stock_ticker, info, financials)
        IN  IF revenue_positive(metrics.annual_revenue).exc
            THEN metrics_except(stock_ticker,
                                revenue_positive(metrics.annual_revenue).msg, accesses)
            ELSE IF YfRaise(info).exc
            THEN metrics_except(stock_ticker, YfRaise(info).msg, accesses)
            ELSE
            LET fd == financial_data(metrics, calculated_margins(metrics),
                                     yfinance_margins(info))
            IN  IF SummaryRaise(fd).exc
                THEN metrics_except(stock_ticker, SummaryRaise(fd).msg, accesses)
                ELSE Outcome([status |-> "success",
                              summary |-> summary(fd),
                              detailed_metrics |-> fd,
                              json_data |-> json_dumps(fd),
                              fiscal_year |-> IF Truthy(latest_year)
                                              THEN fiscal_year_end(latest_year).val
                                              ELSE Str(<<"Unknown">>)],
                             accesses, FALSE)

\* the key yf.Ticker is built with, agent.py 271
lookup_key_as_given(stock_ticker) == stock_ticker

lookup_key(stock_ticker) == upper(stock_ticker)

\* the accesses when ticker.info raised: ticker.financials is never read
after_info_failure_retries(key) == <<Access("info", key), Access("info", key)>>

after_info_failure(key) == <<Access("info", key)>>

get_company_financial_metrics(stock_ticker, provider) ==
    LET key == lookup_key(stock_ticker)
    IN  IF provider.info.exc
        THEN metrics_except(stock_ticker, provider.info.msg, after_info_failure(key))
        ELSE IF provider.financials.exc
        THEN metrics_except(stock_ticker, provider.financials.msg,
                            <<Access("info", key), Access("financials", key)>>)
        ELSE IF empty(provider.financials.val) \/ DOMAIN provider.info.val = {}
        THEN no_data(stock_ticker, <<Access("info", key), Access("financials", key)>>)
        ELSE build_metrics(stock_ticker, provider.info.val, provider.financials.val,
                           <<Access("info", key), Access("financials", key)>>)

(***************************************************************************)
(* Inputs of get_company_financial_metrics: the tickers and the provider's *)
(* answers the model draws from.                                           *)
(***************************************************************************)
TickerChars == {"a", "A"}

SeqsUpTo(S, n) == UNION {[1..m -> S] : m \in 1..n}

Tickers == SeqsUpTo(TickerChars, MaxTickerLen) \cup {<<>>}

ExcMsgs == {<<"HTTP Error 401: Unauthorized">>, <<"Read timed out.">>}

\* a key a dict may lack
Absent == [k |-> "absent"]
Opt(key, v) == IF v = Absent THEN <<>> ELSE key :> v

Latest == Timestamp(<<"2024-12-31">>)
Previous == Timestamp(<<"2023-12-31">>)

\* a row of the table: the cell of the most recent year, then last year's
Row(name, cell) == IF cell = Absent THEN <<>> ELSE name :> <<cell, Num(77)>>

OtherRows ==
    Row("Cost Of Revenue", Num(2)) @@ Row("Interest Income", NaN)
    @@ Row("Interest Expense", Num(0)) @@ Row("Total Expenses", Str(<<"n/a">>))
    @@ Row("Operating Expense", Num(-3)) @@ Row("EBIT", None)

IncomeTable(label, rev, gross, operating, net, ebitda) ==
    Table(<<label, Previous>>,
          Row("Total Revenue", rev) @@ Row("Gross Profit", gross)
          @@ Row("Operating Income", operating) @@ Row("Net Income", net)
          @@ Row("EBITDA", ebitda) @@ OtherRows)

BaseTable == IncomeTable(Latest, Num(400), Num(100), Num(30), Num(-20), Num(50))

InfoDict(long, short, currency, cap, ev, revenue, gm, om, pm) ==
    ("symbol" :> Str(<<"ACME">>))
    @@ Opt("longName", long) @@ Opt("shortName", short) @@ Opt("currency", currency)
    @@ Opt("marketCap", cap) @@ Opt("enterpriseValue", ev)
    @@ Opt("totalRevenue", revenue) @@ Opt("grossMargins", gm)
    @@ Opt("operatingMargins", om) @@ Opt("profitMargins", pm)

BaseInfo ==
    InfoDict(Str(<<"Acme Corporation">>), Str(<<"Acme">>), Str(<<"EUR">>),
             Num(2500000), Num(1999), Num(8), Ratio(25004), Ratio(7496), Absent)

Answer(info, financials) == [info |-> info, financials |-> financials]

\* the provider raises on ticker.info or on ticker.financials
FailingAnswers ==
    {Answer(Raise(m), Return(BaseTable)) : m \in ExcMsgs}
    \cup {Answer(Raise(m), Return(Table(<<>>, <<>>))) : m \in ExcMsgs}
    \cup {Answer(Return(BaseInfo), Raise(m)) : m \in ExcMsgs}

\* the provider knows nothing: no columns, no rows, or no attributes
EmptyAnswers ==
    {Answer(Return(BaseInfo), Return(Table(<<>>, <<>>))),
     Answer(Return(BaseInfo), Return(Table(<<Latest>>, <<>>))),
     Answer(Return(<<>>), Return(BaseTable)),
     Answer(Return(<<>>), Return(Table(<<>>, <<>>)))}

RevenueCells == {Absent, None, NaN, Str(<<"n/a">>), Num(0), Num(-4), Num(3), Num(30000)}
InfoRevenues == {Absent, None, Num(0), Num(-4), Num(8), Str(<<"n/a">>)}
GrossCells == {Absent, NaN, Num(0), Num(1), Num(-2), Num(7)}
OperatingCells == {Absent, Num(0), Num(2)}
NetCells == {Absent, None, Num(-1)}
EbitdaCells == {Absent, Num(5)}

\* answers that vary the revenue and the numerators of the margins
MarginAnswer(ir, r, g, o, n, e) ==
    Answer(Return(InfoDict(Absent, Str(<<"Acme">>), Absent, Num(1500), Absent,
                           ir, Absent, Absent, Absent)),
           Return(IncomeTable(Latest, r, g, o, n, e)))

LongNames == {Absent, None, Str(<<"Acme Corporation">>), Str(<<"A", "\"", "\\", "B">>)}
ShortNames == {Absent, Str(<<"Acme">>)}
Currencies == {Absent, Str(<<"EUR">>)}
MarketCaps == {Absent, Num(999), Num(1000), Num(2500000), Big(TRUE, 1234567, 0),
               Big(FALSE, 3, 4500), NaN, Str(<<"n/a">>)}
GrossRatios == {Absent, None, Ratio(0), Ratio(43123), Num(1), NaN, Str(<<"n/a">>)}
OtherRatios == {Absent, Ratio(-12346)}
Labels == {Latest, Str(<<"2024">>), None}

\* answers that vary the descriptive attributes and the column label
InfoAnswer(l, s, c, mc, gm, om, y) ==
    Answer(Return(InfoDict(l, s, c, mc, Num(1999), Absent, gm, om, om)),
           Return(IncomeTable(y, Num(400), Num(100), Num(30), Num(-20), Num(50))))

(***************************************************************************)
(* The state machine: one action per tool call.                            *)
(***************************************************************************)
Init ==
    /\ op = "none"
    /\ input = <<>>
    /\ log = <<>>
    /\ result = [status |-> "none"]
    /\ raised = FALSE

\* The tools share no state from one call to the next, so a behaviour is one
\* call, made from the initial state.
Idle == op = "none"

Leave(name, in, out) ==
    /\ op' = name
    /\ input' = in
    /\ log' = out.log
    /\ result' = out.result
    /\ raised' = out.raised

CallMetrics(stock_ticker, provider) ==
    Leave("get_company_financial_metrics",
          [stock_ticker |-> stock_ticker, provider |-> provider],
          get_company_financial_metrics(stock_ticker, provider))

GetCompanyFinancialMetrics ==
    /\ Idle
    /\ \E stock_ticker \in Tickers :
        \/ \E provider \in FailingAnswers \cup EmptyAnswers :
              CallMetrics(stock_ticker, provider)
        \/ \E ir \in InfoRevenues, r \in RevenueCells, g \in GrossCells,
              o \in OperatingCells, n \in NetCells, e \in EbitdaCells :
              CallMetrics(stock_ticker, MarginAnswer(ir, r, g, o, n, e))
        \/ \E l \in LongNames, s \in ShortNames, c \in Currencies, mc \in MarketCaps,
              gm \in GrossRatios, om \in OtherRatios, y \in Labels :
              CallMetrics(stock_ticker, InfoAnswer(l, s, c, mc, gm, om, y))

NextMetrics == GetCompanyFinancialMetrics

SpecMetrics == Init /\ [][NextMetrics]_vars

(***************************************************************************)
(* Properties of get_company_financial_metrics.                            *)
(***************************************************************************)
MetricsCall == op = "get_company_financial_metrics"
MetricsSuccess == MetricsCall /\ result.status = "success"
MetricsError == MetricsCall /\ result.status = "error"

ComputedMargins == DOMAIN MarginOf

\* x is null, or a number <= 0
NullOrNotPositive(x) == x.k = "null" \/ (x.k = "num" /\ x.v <= 0)

\* x is a number > 0
PositiveNumber(x) == x.k = "num" /\ x.v > 0

\* p (hundredths of a percent) is numerator / revenue * 100 rounded to two
\* decimals: no other multiple of 0.01 is nearer to the quotient
IsRoundedMargin(p, numerator, revenue) ==
    /\ p.k = "pct"
    /\ 2 * Abs(p.v * revenue.v - numerator.v * 10000) <= revenue.v

\* C1: in a success result, detailed_metrics holds none of the four computed
\* margin fields when annual_revenue is null or <= 0.
C1_NoMarginWithoutPositiveRevenue ==
    MetricsSuccess =>
        (NullOrNotPositive(result.detailed_metrics.annual_revenue)
            => ComputedMargins \cap DOMAIN result.detailed_metrics = {})

\* a success whose revenue is negative while a numerator is there to divide
C1_Witness ==
    /\ MetricsSuccess
    /\ result.detailed_metrics.annual_revenue = Num(-4)
    /\ result.detailed_metrics.gross_profit = Num(7)
    /\ ComputedMargins \cap DOMAIN result.detailed_metrics = {}

EmptyAnswer(provider) ==
    \/ ~provider.financials.exc /\ empty(provider.financials.val)
    \/ ~provider.info.exc /\ DOMAIN provider.info.val = {}

\* C5: an empty table or empty attributes give status "error" with a message
\* that names the ticker, and no call lets an exception out.
C5_EmptyAnswerIsErrorNeverRaises ==
    MetricsCall =>
        /\ ~raised
        /\ result.status \in {"success", "error"}
        /\ EmptyAnswer(input.provider) =>
              /\ DOMAIN result = {"status", "error_message"}
              /\ result.status = "error"
              /\ Contains(result.error_message, input.stock_ticker)

\* the provider answered, with no table, for a lower-case ticker
C5_Witness ==
    /\ MetricsError
    /\ ~input.provider.info.exc /\ ~input.provider.financials.exc
    /\ EmptyAnswer(input.provider)
    /\ input.stock_ticker = <<"a">>
    /\ ~raised

\* the exception message of the provider access that raised, if one did
ProviderRaised(provider) == provider.info.exc \/ provider.financials.exc
ProviderMessage(provider) ==
    IF provider.info.exc THEN provider.info.msg ELSE provider.financials.msg

\* C6: when the provider raises, the result is an error that carries the
\* ticker and the exception's message and nothing else, and the access that
\* raised is the last one made: nothing is asked twice.
C6_ProviderFailureIsOneError ==
    (MetricsCall /\ ProviderRaised(input.provider)) =>
        /\ result.status = "error"
        /\ DOMAIN result = {"status", "error_message"}
        /\ Contains(result.error_message, input.stock_ticker)
        /\ Contains(result.error_message, ProviderMessage(input.provider))
        /\ \A i, j \in 1..Len(log) : log[i] = log[j] => i = j
        /\ log[Len(log)].what = (IF input.provider.info.exc THEN "info" ELSE "financials")

\* ticker.info raised
C6_Witness ==
    /\ MetricsError
    /\ input.provider.info.exc
    /\ Len(log) = 1
    /\ Contains(result.error_message, <<"Read timed out.">>)

\* the margin field each percentage of the summary shows
SummaryMargin ==
    [gross_margin |-> "gross_profit_margin_percent",
     operating_margin |-> "operating_profit_margin_percent",
     net_margin |-> "net_profit_margin_percent"]

\* C8: in the summary of a success, gross_margin, operating_margin and
\* net_margin are "<value>%" exactly when the margin field is present in
\* detailed_metrics and "N/A" exactly when it is absent.
C8_SummaryMarginIffPresent ==
    MetricsSuccess =>
        \A f \in DOMAIN SummaryMargin :
            LET fd == result.detailed_metrics
                shown == result.summary[f]
            IN  IF SummaryMargin[f] \in DOMAIN fd
                THEN shown = FStr("", fd[SummaryMargin[f]].v < 0,
                                  Abs(fd[SummaryMargin[f]].v), "%")
                ELSE shown = Str(<<"N/A">>)

\* key is ticker with every letter in upper case
IsUpperOf(key, ticker) ==
    /\ Len(key) = Len(ticker)
    /\ \A i \in 1..Len(key) :
          /\ LowerChar(key[i]) = LowerChar(ticker[i])
          /\ UpperChar(key[i]) = key[i]

\* C9: the provider is asked for the upper-cased ticker, and the ticker of
\* detailed_metrics and of the summary is the upper-cased input, so inputs
\* that differ only in case share the lookup key and the echoed ticker.
C9_TickerUppercased ==
    MetricsCall =>
        /\ log # <<>>
        /\ \A i \in 1..Len(log) : IsUpperOf(log[i].key, input.stock_ticker)
        /\ result.status = "success" =>
              /\ result.detailed_metrics.ticker.k = "str"
              /\ IsUpperOf(result.detailed_metrics.ticker.v, input.stock_ticker)
              /\ result.summary.ticker = result.detailed_metrics.ticker

\* a success for a mixed-case ticker
C9_Witness ==
    /\ MetricsSuccess
    /\ input.stock_ticker = <<"a", "A">>
    /\ log[1].key = <<"A", "A">>
    /\ result.detailed_metrics.ticker = Str(<<"A", "A">>)

(***************************************************************************)
(* format_currency on its own: two values are formatted, so that the       *)
(* buckets of a smaller and of a larger magnitude can be compared.         *)
(***************************************************************************)
\* +-(10^e + d) for e in {3, 6, 9, 12} and a small offset d
Around(e, d, negative) ==
    LET sign == IF negative THEN -1 ELSE 1
    IN  CASE e = 3 -> Num(sign * (1000 + d))
          [] e = 6 -> Num(sign * (Limb + d))
          [] e = 9 -> Num(sign * (1000 * Limb + d))
          [] e = 12 -> IF d >= 0 THEN Big(negative, Limb, d)
                       ELSE Big(negative, Limb - 1, Limb + d)

CurrencyValues ==
    {Around(e, d, n) : e \in {3, 6, 9, 12}, d \in (-NearBy)..NearBy, n \in BOOLEAN}
    \cup {None, NaN, Num(0), Num(5), Num(-999)}

FormatCurrency ==
    /\ Idle
    /\ \E first \in CurrencyValues, second \in CurrencyValues :
          Leave("format_currency",
                [first |-> first, second |-> second],
                Outcome([first |-> format_currency(first).val,
                         second |-> format_currency(second).val], <<>>, FALSE))

NextFormat == FormatCurrency

SpecFormat == Init /\ [][NextFormat]_vars

\* the number of decimal digits of hi * 10^6 + lo
RECURSIVE DigitsOf(_)
DigitsOf(n) == IF n < 10 THEN 1 ELSE 1 + DigitsOf(n \div 10)

Digits(m) == IF m.hi > 0 THEN 6 + DigitsOf(m.hi) ELSE DigitsOf(m.lo)

\* the unit a magnitude belongs to, by its number of digits
UnitOfDigits(d) ==
    IF d >= 13 THEN "T" ELSE IF d >= 10 THEN "B" ELSE IF d >= 7 THEN "M"
    ELSE IF d >= 4 THEN "K" ELSE ""

UnitRank(u) == CASE u = "" -> 0 [] u = "K" -> 1 [] u = "M" -> 2 [] u = "B" -> 3 [] u = "T" -> 4

MagnitudeLE(a, b) == a.hi < b.hi \/ (a.hi = b.hi /\ a.lo <= b.lo)

IsAmount(x) == x.k \in {"num", "big"}

\* C7: the suffix is chosen by magnitude with thresholds 1e12, 1e9, 1e6 and
\* 1e3; a larger magnitude never gets a smaller unit; 1e12 gets "T",
\* 999999999999 gets "B", and None gives "N/A".
C7_SuffixByMagnitude ==
    op = "format_currency" =>
        /\ \A f \in {"first", "second"} :
              /\ input[f] = None => result[f] = Str(<<"N/A">>)
              /\ IsAmount(input[f]) =>
                    /\ result[f].k = "fstr"
                    /\ result[f].suf = UnitOfDigits(Digits(AbsLimbs(input[f])))
              /\ input[f] = Big(FALSE, Limb, 0) => result[f].suf = "T"
              /\ input[f] = Big(FALSE, Limb - 1, Limb - 1) => result[f].suf = "B"
        /\ (/\ IsAmount(input.first) /\ IsAmount(input.second)
            /\ MagnitudeLE(AbsLimbs(input.first), AbsLimbs(input.second)))
              => UnitRank(result.first.suf) <= UnitRank(result.second.suf)

\* 999999999999 and 1e12 formatted side by side
C7_Witness ==
    /\ op = "format_currency"
    /\ input.first = Big(FALSE, Limb - 1, Limb - 1)
    /\ input.second = Big(FALSE, Limb, 0)
    /\ result.first.suf = "B"
    /\ result.second.suf = "T"

(***************************************************************************)
(* get_weather, agent.py 11-32 (and its copy in agents/).                  *)
(***************************************************************************)
NewYork == <<"n", "e", "w", " ", "y", "o", "r", "k">>

WeatherReport ==
    [status |-> "success",
     report |-> <<"The weather in New York is sunny with a temperature of 25 degrees",
                  " Celsius (77 degrees Fahrenheit).">>]

get_weather_case_sensitive(city) ==
    IF city = NewYork
    THEN Outcome(WeatherReport, <<>>, FALSE)
    ELSE Outcome([status |-> "error",
                  error_message |-> <<"Weather information for '">> \o city
                                     \o <<"' is not available.">>],
                 <<>>, FALSE)

get_weather(city) ==
    IF lower(city) = NewYork
    THEN Outcome(WeatherReport, <<>>, FALSE)
    ELSE Outcome([status |-> "error",
                  error_message |-> <<"Weather information for '">> \o city
                                     \o <<"' is not available.">>],
                 <<>>, FALSE)

\* every casing of "new york"
Casings(s) ==
    {[i \in 1..Len(s) |-> IF up[i] THEN UpperChar(s[i]) ELSE s[i]] :
        up \in [1..Len(s) -> BOOLEAN]}

Cities ==
    Casings(NewYork)
    \cup Casings(<<"p", "a", "r", "i", "s">>)
    \cup {<<>>, <<"n", "e", "w", "y", "o", "r", "k">>,
          <<"n", "e", "w", " ", "y", "o", "r", "k", " ">>,
          <<" ", "n", "e", "w", " ", "y", "o", "r", "k">>,
          <<"n", "e", "w", " ", "y", "o", "r">>, <<"y", "o", "r", "k">>}

GetWeather ==
    /\ Idle
    /\ \E city \in Cities :
          Leave("get_weather", [city |-> city], get_weather(city))

NextWeather == GetWeather

SpecWeather == Init /\ [][NextWeather]_vars

\* city is "new york" up to the case of its letters
IsNewYork(city) ==
    /\ Len(city) = Len(NewYork)
    /\ \A i \in 1..Len(NewYork) : city[i] \in {NewYork[i], UpperChar(NewYork[i])}

\* C10: get_weather succeeds exactly for the casings of "new york", with one
\* and the same payload; any other city gets status "error" with a message
\* that holds the city as given; no call raises.
C10_WeatherOnlyNewYork ==
    op = "get_weather" =>
        /\ ~raised
        /\ IF IsNewYork(input.city)
           THEN result = WeatherReport
           ELSE /\ result.status = "error"
                /\ DOMAIN result = {"status", "error_message"}
                /\ Contains(result.error_message, input.city)

\* "New York" succeeds
C10_Witness ==
    /\ op = "get_weather"
    /\ input.city = <<"N", "e", "w", " ", "Y", "o", "r", "k">>
    /\ result.status = "success"

(***************************************************************************)
(* More of str: split, strip, replace and slicing.                         *)
(***************************************************************************)
Min(a, b) == IF a < b THEN a ELSE b

\* s[:n]
Take(s, n) == SubSeq(s, 1, Min(n, Len(s)))

\* s.split(sep) for a one-character separator
RECURSIVE split(_, _)
split(s, sep) ==
    IF \E i \in 1..Len(s) : s[i] = sep
    THEN LET i == CHOOSE i \in 1..Len(s) : s[i] = sep /\ \A j \in 1..(i - 1) : s[j] # sep
         IN  <<SubSeq(s, 1, i - 1)>> \o split(SubSeq(s, i + 1, Len(s)), sep)
    ELSE <<s>>

\* s.strip()
RECURSIVE strip(_)
strip(s) ==
    IF s = <<>> THEN s
    ELSE IF s[1] = " " THEN strip(Tail(s))
    ELSE IF s[Len(s)] = " " THEN strip(SubSeq(s, 1, Len(s) - 1))
    ELSE s

\* s.replace(" ", "")
RECURSIVE remove_spaces(_)
remove_spaces(s) ==
    IF s = <<>> THEN s
    ELSE IF s[1] = " " THEN remove_spaces(Tail(s))
    ELSE <<s[1]>> \o remove_spaces(Tail(s))

\* sep.join(parts)
RECURSIVE join(_, _)
join(parts, sep) ==
    IF parts = <<>> THEN <<>>
    ELSE IF Len(parts) = 1 THEN parts[1]
    ELSE parts[1] \o sep \o join(Tail(parts), sep)

(***************************************************************************)
(* find_contracted_companies, agent.py 63-107.  The external call either   *)
(* returns the answer text or raises.                                      *)
(***************************************************************************)
find_contracted_companies_strips(company_name, llm) ==
    IF llm.exc
    THEN Outcome([status |-> "error",
                  error_message |->
                      <<"Unable to search for contracted companies for '">>
                      \o company_name \o <<"': ">> \o llm.msg],
                 <<Access("generate_content", company_name)>>, FALSE)
    ELSE Outcome([status |-> "success",
                  report |-> <<"Contracted companies for ">> \o company_name
                             \o <<":", "\n">> \o strip(llm.val),
                  company_searched |-> company_name],
                 <<Access("generate_content", company_name)>>, FALSE)

find_contracted_companies(company_name, llm) ==
    IF llm.exc
    THEN Outcome([status |-> "error",
                  error_message |->
                      <<"Unable to search for contracted companies for '">>
                      \o company_name \o <<"': ">> \o llm.msg],
                 <<Access("generate_content", company_name)>>, FALSE)
    ELSE Outcome([status |-> "success",
                  report |-> <<"Contracted companies for ">> \o company_name
                             \o <<":", "\n">> \o llm.val,
                  company_searched |-> company_name],
                 <<Access("generate_content", company_name)>>, FALSE)

(***************************************************************************)
(* check_public_trading_status, agent.py 110-258.  The provider's answers  *)
(* to ticker.info are taken, in the order asked, from a sequence that is   *)
(* read cyclically.                                                        *)
(***************************************************************************)
symbol_mappings ==
    (<<"o", "r", "a", "c", "l", "e">> :> Str(<<"O", "R", "C", "L">>))
    @@ (<<"m", "i", "c", "r", "o", "s", "o", "f", "t">> :> Str(<<"M", "S", "F", "T">>))
    @@ (<<"a", "p", "p", "l", "e">> :> Str(<<"A", "A", "P", "L">>))
    @@ (<<"g", "o", "o", "g", "l", "e">> :> Str(<<"G", "O", "O", "G", "L">>))
    @@ (<<"a", "l", "p", "h", "a", "b", "e", "t">> :> Str(<<"G", "O", "O", "G", "L">>))
    @@ (<<"a", "m", "a", "z", "o", "n">> :> Str(<<"A", "M", "Z", "N">>))
    @@ (<<"m", "e", "t", "a">> :> Str(<<"M", "E", "T", "A">>))
    @@ (<<"f", "a", "c", "e", "b", "o", "o", "k">> :> Str(<<"M", "E", "T", "A">>))
    @@ (<<"n", "v", "i", "d", "i", "a">> :> Str(<<"N", "V", "D", "A">>))
    @@ (<<"t", "e", "s", "l", "a">> :> Str(<<"T", "S", "L", "A">>))
    @@ (<<"s", "a", "l", "e", "s", "f", "o", "r", "c", "e">> :> Str(<<"C", "R", "M">>))
    @@ (<<"s", "e", "r", "v", "i", "c", "e", "n", "o", "w">> :> Str(<<"N", "O", "W">>))
    @@ (<<"w", "o", "r", "k", "d", "a", "y">> :> Str(<<"W", "D", "A", "Y">>))
    @@ (<<"a", "d", "o", "b", "e">> :> Str(<<"A", "D", "B", "E">>))
    @@ (<<"i", "n", "t", "e", "l">> :> Str(<<"I", "N", "T", "C">>))
    @@ (<<"i", "b", "m">> :> Str(<<"I", "B", "M">>))
    @@ (<<"s", "a", "p">> :> Str(<<"S", "A", "P">>))
    @@ (<<"a", "c", "c", "e", "n", "t", "u", "r", "e">> :> Str(<<"A", "C", "N">>))
    @@ (<<"d", "e", "l", "o", "i", "t", "t", "e">> :> Str(<<"D", "L", "X">>))
    @@ (<<"p", "w", "c">> :> None)
    @@ (<<"k", "p", "m", "g">> :> None)
    @@ (<<"e", "y">> :> None)

known_private_short == {<<"p", "w", "c">>, <<"k", "p", "m", "g">>, <<"e", "y">>}

known_private == {<<"p", "w", "c">>, <<"k", "p", "m", "g">>, <<"e", "y">>, <<"e", "r", "n", "s", "t", " ", "&", " ", "y", "o", "u", "n", "g">>}

\* the answer to the next access, given the accesses made so far
NextAnswer(answers, accesses) == answers[(Len(accesses) % Len(answers)) + 1]

\* yf.Ticker(symbol).info, agent.py 178-179 and 198-199; the access is noted
\* together with the position, in detailed_results, of the entry it is made for
Asked(entry, symbol) == [what |-> "info", key |-> symbol, entry |-> entry]

possible_symbols_three_first(company) ==
    <<Take(upper(company), 3), Take(upper(company), 4),
      Take(upper(remove_spaces(company)), 4)>>

\* agent.py 169-173
possible_symbols(company) ==
    <<Take(upper(company), 4), Take(upper(company), 3),
      Take(upper(remove_spaces(company)), 4)>>

\* agent.py 175-185: the guesses are tried in order until the provider
\* accepts one; [found, symbol, log]
RECURSIVE try_symbols(_, _, _, _)
try_symbols(entry, symbols, answers, accesses) ==
    IF symbols = <<>> THEN [found |-> FALSE, symbol |-> None, log |-> accesses]
    ELSE LET info == NextAnswer(answers, accesses)
             asked == Append(accesses, Asked(entry, symbols[1]))
         IN  IF ~info.exc /\ DOMAIN info.val # {} /\ "symbol" \in DOMAIN info.val
             THEN [found |-> TRUE, symbol |-> Str(symbols[1]), log |-> asked]
             ELSE try_symbols(entry, Tail(symbols), answers, asked)

Entry(company, is_public, symbol, status) ==
    [company |-> company, is_public |-> is_public, symbol |-> symbol, status |-> status]

\* agent.py 196-227: the symbol is checked against the provider
check_symbol(entry, company, symbol, answers, accesses) ==
    LET info == NextAnswer(answers, accesses)
        asked == Append(accesses, Asked(entry, symbol.v))
    IN  IF info.exc
        THEN [entry |-> Entry(company, FALSE, symbol,
                              <<"Error checking symbol ">> \o symbol.v \o <<": ">> \o info.msg),
              log |-> asked]
        ELSE IF Cardinality(DOMAIN info.val) > 1
        THEN [entry |-> Entry(company, TRUE, symbol, <<"Publicly traded">>)
                        @@ [official_name |->
                                GetDefault(info.val, "longName",
                                    GetDefault(info.val, "shortName", Str(company))),
                            exchange |-> GetDefault(info.val, "exchange", Str(<<"Unknown">>))],
              log |-> asked]
        ELSE [entry |-> Entry(company, FALSE, None,
                              <<"Symbol exists but no trading data found">>),
              log |-> asked]

check_company_keeps_empty(company, answers, acc) ==
    LET company_lower == lower(company)
        entry == Len(acc.results) + 1
        mapped == IF company_lower \in DOMAIN symbol_mappings
                  THEN symbol_mappings[company_lower] ELSE None
    IN  IF mapped # None
        THEN LET c == check_symbol(entry, company, mapped, answers, acc.log)
             IN  [results |-> Append(acc.results, c.entry), log |-> c.log]
        ELSE IF company_lower \in known_private
        THEN [results |-> Append(acc.results,
                                 Entry(company, FALSE, None, <<"Known private company">>)),
              log |-> acc.log]
        ELSE LET t == try_symbols(entry, possible_symbols(company), answers, acc.log)
             IN  IF ~t.found
                 THEN [results |-> Append(acc.results,
                                          Entry(company, FALSE, None,
                                                <<"No public trading symbol found">>)),
                       log |-> t.log]
                 ELSE LET c == check_symbol(entry, company, t.symbol, answers, t.log)
                      IN  [results |-> Append(acc.results, c.entry), log |-> c.log]

\* agent.py 123-227: one company of the list; [results, log]
check_company(company, answers, acc) ==
    LET company_lower == lower(company)
        entry == Len(acc.results) + 1
        mapped == IF company_lower \in DOMAIN symbol_mappings
                  THEN symbol_mappings[company_lower] ELSE None
    IN  IF company = <<>> THEN acc
        ELSE IF mapped # None
        THEN LET c == check_symbol(entry, company, mapped, answers, acc.log)
             IN  [results |-> Append(acc.results, c.entry), log |-> c.log]
        ELSE IF company_lower \in known_private
        THEN [results |-> Append(acc.results,
                                 Entry(company, FALSE, None, <<"Known private company">>)),
              log |-> acc.log]
        ELSE LET t == try_symbols(entry, possible_symbols(company), answers, acc.log)
             IN  IF ~t.found
                 THEN [results |-> Append(acc.results,
                                          Entry(company, FALSE, None,
                                                <<"No public trading symbol found">>)),
                       log |-> t.log]
                 ELSE LET c == check_symbol(entry, company, t.symbol, answers, t.log)
                      IN  [results |-> Append(acc.results, c.entry), log |-> c.log]

RECURSIVE check_companies_stops_at_error(_, _, _)
check_companies_stops_at_error(companies, answers, acc) ==
    IF companies = <<>> THEN acc
    ELSE LET next == check_company(companies[1], answers, acc)
         IN  IF /\ Len(next.results) > Len(acc.results)
                /\ ~next.results[Len(next.results)].is_public
                /\ next.results[Len(next.results)].symbol # None
             THEN next
             ELSE check_companies_stops_at_error(Tail(companies), answers, next)

RECURSIVE check_companies(_, _, _)
check_companies(companies, answers, acc) ==
    IF companies = <<>> THEN acc
    ELSE check_companies(Tail(companies), answers,
                         check_company(companies[1], answers, acc))

\* [r for r in results if keep(r)]
RECURSIVE public_of(_)
public_of(results) ==
    IF results = <<>> THEN <<>>
    ELSE (IF results[1].is_public THEN <<results[1]>> ELSE <<>>) \o public_of(Tail(results))

RECURSIVE private_of(_)
private_of(results) ==
    IF results = <<>> THEN <<>>
    ELSE (IF results[1].is_public THEN <<>> ELSE <<results[1]>>) \o private_of(Tail(results))

\* agent.py 233-244: one line per company under its heading
trading_report(results) ==
    [public |-> [i \in 1..Len(public_of(results)) |->
                    [company |-> public_of(results)[i].company,
                     symbol |-> public_of(results)[i].symbol,
                     official_name |-> public_of(results)[i].official_name,
                     exchange |-> public_of(results)[i].exchange]],
     private |-> [i \in 1..Len(private_of(results)) |->
                    [company |-> private_of(results)[i].company,
                     status |-> private_of(results)[i].status]]]

check_public_trading_status(company_names, answers) ==
    LET companies == [i \in 1..Len(split(company_names, ",")) |->
                        strip(split(company_names, ",")[i])]
        done == check_companies(companies, answers, [results |-> <<>>, log |-> <<>>])
    IN  Outcome([status |-> "success",
                 report |-> trading_report(done.results),
                 detailed_results |-> done.results,
                 public_count |-> Len(public_of(done.results)),
                 private_count |-> Len(private_of(done.results))],
                done.log, FALSE)

(***************************************************************************)
(* The REST handlers, frontend_app.py.  A handler answers with a status    *)
(* code and either the body it returned or the detail of the               *)
(* HTTPException it raised.  HTTPException is an Exception: one raised     *)
(* inside a handler's try block is caught by its own `except Exception`.   *)
(***************************************************************************)
Ok(body) == [http |-> "200", body |-> body]
HTTPException(status_code, detail) == [http |-> status_code, detail |-> detail]

\* str(e) of an HTTPException
HttpStr(e) == <<e.http, ": ">> \o e.detail

\* what the try block of a handler ends with
Returns(body) == [raises |-> FALSE, body |-> body]
RaisesHttp(status_code, detail) ==
    [raises |-> TRUE, e |-> HTTPException(status_code, detail)]

\* except Exception as e: raise HTTPException(status_code=500, detail=str(e)),
\* frontend_app.py 190-191, 201-202, 212-213
tool_handler(try) ==
    IF try.raises THEN HTTPException("500", HttpStr(try.e)) ELSE Ok(try.body)

\* the try block of the three single-tool handlers, frontend_app.py 186-189
tool_try(tool_result) ==
    IF tool_result.status # "success"
    THEN RaisesHttp("400", tool_result.error_message)
    ELSE Returns(tool_result)

Call(tool, argument) == [what |-> tool, key |-> argument]

\* frontend_app.py 182-191
get_financial_metrics(request, provider) ==
    LET tool == get_company_financial_metrics(request.ticker, provider)
    IN  Outcome(tool_handler(tool_try(tool.result)),
                <<Call("get_company_financial_metrics", request.ticker)>> \o tool.log,
                tool.raised)

\* frontend_app.py 193-202
check_trading_status(request, answers) ==
    LET tool == check_public_trading_status(request.company_names, answers)
    IN  Outcome(tool_handler(tool_try(tool.result)),
                <<Call("check_public_trading_status", request.company_names)>> \o tool.log,
                tool.raised)

\* frontend_app.py 204-213
find_contracted(request, llm) ==
    LET tool == find_contracted_companies(request.company_name, llm)
    IN  Outcome(tool_handler(tool_try(tool.result)),
                <<Call("find_contracted_companies", request.company_name)>> \o tool.log,
                tool.raised)

(***************************************************************************)
(* search_company_analysis, frontend_app.py 81-180                         *)
(***************************************************************************)
example_companies ==
    <<<<"A", "c", "c", "e", "n", "t", "u", "r", "e">>,
      <<"D", "e", "l", "o", "i", "t", "t", "e">>,
      <<"I", "B", "M">>,
      <<"M", "i", "c", "r", "o", "s", "o", "f", "t">>,
      <<"S", "a", "l", "e", "s", "f", "o", "r", "c", "e">>,
      <<"S", "e", "r", "v", "i", "c", "e", "N", "o", "w">>,
      <<"W", "o", "r", "k", "d", "a", "y">>,
      <<"S", "A", "P">>,
      <<"A", "d", "o", "b", "e">>,
      <<"I", "n", "t", "e", "l">>>>

sample_companies ==
    <<<<"A", "c", "c", "e", "n", "t", "u", "r", "e">>, <<"D", "e", "l", "o", "i", "t", "t", "e">>, <<"I", "B", "M">>, <<"M", "i", "c", "r", "o", "s", "o", "f", "t">>>>

ticker_map ==
    (<<"m", "i", "c", "r", "o", "s", "o", "f", "t">> :> <<"M", "S", "F", "T">>)
    @@ (<<"a", "c", "c", "e", "n", "t", "u", "r", "e">> :> <<"A", "C", "N">>)
    @@ (<<"i", "b", "m">> :> <<"I", "B", "M">>)
    @@ (<<"s", "a", "l", "e", "s", "f", "o", "r", "c", "e">> :> <<"C", "R", "M">>)
    @@ (<<"s", "e", "r", "v", "i", "c", "e", "n", "o", "w">> :> <<"N", "O", "W">>)
    @@ (<<"w", "o", "r", "k", "d", "a", "y">> :> <<"W", "D", "A", "Y">>)
    @@ (<<"s", "a", "p">> :> <<"S", "A", "P">>)
    @@ (<<"a", "d", "o", "b", "e">> :> <<"A", "D", "B", "E">>)
    @@ (<<"i", "n", "t", "e", "l">> :> <<"I", "N", "T", "C">>)

RECURSIVE companies_in_case_sensitive(_, _)
companies_in_case_sensitive(candidates, report_text) ==
    IF candidates = <<>> THEN <<>>
    ELSE (IF Contains(report_text, candidates[1])
          THEN <<candidates[1]>> ELSE <<>>)
         \o companies_in_case_sensitive(Tail(candidates), report_text)

\* frontend_app.py 112-119
RECURSIVE companies_in(_, _)
companies_in(candidates, report_text) ==
    IF candidates = <<>> THEN <<>>
    ELSE (IF Contains(lower(report_text), lower(candidates[1]))
          THEN <<candidates[1]>> ELSE <<>>)
         \o companies_in(Tail(candidates), report_text)

found_companies(report_text) ==
    IF companies_in(example_companies, report_text) = <<>>
    THEN sample_companies
    ELSE companies_in(example_companies, report_text)

\* frontend_app.py 131-138
RECURSIVE public_companies(_)
public_companies(detailed_results) ==
    IF detailed_results = <<>> THEN <<>>
    ELSE (IF detailed_results[1].is_public
          THEN <<[name |-> detailed_results[1].company,
                  symbol |-> detailed_results[1].symbol,
                  exchange |-> detailed_results[1].exchange]>>
          ELSE <<>>)
         \o public_companies(Tail(detailed_results))

\* frontend_app.py 143-155: the name and the ticker of an element of
\* public_companies, a dict or (when the trading check failed) a plain name
name_and_ticker(company) ==
    IF "symbol" \in DOMAIN company
    THEN [name |-> company.name, ticker |-> company.symbol.v]
    ELSE [name |-> company.name,
          ticker |-> IF lower(company.name) \in DOMAIN ticker_map
                     THEN ticker_map[lower(company.name)]
                     ELSE upper(Take(company.name, 4))]

RECURSIVE collect_financial_data_stops(_, _, _)
collect_financial_data_stops(companies, providers, acc) ==
    IF companies = <<>> THEN acc
    ELSE LET ticker == companies[1].ticker
             provider == providers[(Len(acc.asked) % Len(providers)) + 1]
             tool == get_company_financial_metrics(ticker, provider)
             asked == Append(acc.asked, ticker)
             made == acc.log \o <<Call("get_company_financial_metrics", ticker)>> \o tool.log
         IN  IF tool.result.status # "success"
             THEN [financial_data |-> acc.financial_data, asked |-> asked, log |-> made]
             ELSE
             collect_financial_data_stops(Tail(companies), providers,
                 IF tool.result.status = "success"
                 THEN [financial_data |->
                           Append(acc.financial_data,
                                  tool.result.detailed_metrics
                                  @@ [company_name |-> Str(companies[1].name),
                                      ticker |-> Str(ticker)]),
                       asked |-> asked, log |-> made]
                 ELSE [financial_data |-> acc.financial_data,
                       asked |-> asked, log |-> made])

\* frontend_app.py 141-165: the metrics of each public company, in order;
\* [financial_data, log]
RECURSIVE collect_financial_data(_, _, _)
collect_financial_data(companies, providers, acc) ==
    IF companies = <<>> THEN acc
    ELSE LET ticker == companies[1].ticker
             provider == providers[(Len(acc.asked) % Len(providers)) + 1]
             tool == get_company_financial_metrics(ticker, provider)
             asked == Append(acc.asked, ticker)
             made == acc.log \o <<Call("get_company_financial_metrics", ticker)>> \o tool.log
         IN  collect_financial_data(Tail(companies), providers,
                 IF tool.result.status = "success"
                 THEN [financial_data |->
                           Append(acc.financial_data,
                                  tool.result.detailed_metrics
                                  @@ [company_name |-> Str(companies[1].name),
                                      ticker |-> Str(ticker)]),
                       asked |-> asked, log |-> made]
                 ELSE [financial_data |-> acc.financial_data,
                       asked |-> asked, log |-> made])

\* frontend_app.py 87-176, the try block
search_try(request, llm, answers, providers) ==
    LET company_name == strip(request.company_name)
        contracted == find_contracted_companies(company_name, llm)
        called1 == <<Call("find_contracted_companies", company_name)>> \o contracted.log
    IN  IF company_name = <<>>
        THEN [try |-> RaisesHttp("400", <<"Company name cannot be empty">>), log |-> <<>>]
        ELSE IF contracted.result.status # "success"
        THEN [try |-> RaisesHttp("400", <<"Error finding contracted companies: ">>
                                        \o contracted.result.error_message),
              log |-> called1]
        ELSE
        LET found == found_companies(contracted.result.report)
            company_names_str == join(found, <<",", " ">>)
            trading == check_public_trading_status(company_names_str, answers)
            called2 == called1
                       \o <<Call("check_public_trading_status", company_names_str)>>
                       \o trading.log
            succeeded == trading.result.status = "success"
            public == IF succeeded
                      THEN public_companies(trading.result.detailed_results)
                      ELSE [i \in 1..Len(found) |-> [name |-> found[i]]]
            collected == collect_financial_data(
                             [i \in 1..Len(public) |-> name_and_ticker(public[i])],
                             providers,
                             [financial_data |-> <<>>, asked |-> <<>>, log |-> called2])
        IN  [try |-> Returns(
                [status |-> "success",
                 company_searched |-> company_name,
                 contracted_companies_report |-> contracted.result.report,
                 contracted_companies |-> found,
                 public_companies_count |-> IF succeeded THEN Len(public) ELSE 0,
                 total_companies_found |-> Len(found),
                 financial_data |-> collected.financial_data,
                 trading_status_details |->
                     IF succeeded THEN trading.result.detailed_results ELSE <<>>]),
             log |-> collected.log]

\* except Exception as e, frontend_app.py 178-180
search_handler(try) ==
    IF try.raises
    THEN HTTPException("500", <<"Internal server error: ">> \o HttpStr(try.e))
    ELSE Ok(try.body)

search_company_analysis(request, llm, answers, providers) ==
    Outcome(search_handler(search_try(request, llm, answers, providers).try),
            search_try(request, llm, answers, providers).log, FALSE)

(***************************************************************************)
(* The requests and the answers of the outside world the handlers are      *)
(* driven with.                                                            *)
(***************************************************************************)
TradedInfo ==
    ("symbol" :> Str(<<"ACME">>)) @@ ("longName" :> Str(<<"Acme Corporation">>))
    @@ ("exchange" :> Str(<<"NMS">>))

\* what ticker.info may answer when a symbol is checked
InfoOutcomes ==
    {Raise(<<"Read timed out.">>),
     Return(<<>>),
     Return("symbol" :> Str(<<"ACME">>)),
     Return(("shortName" :> Str(<<"Acme">>)) @@ ("trailingPegRatio" :> None)),
     Return(TradedInfo)}

CompanyLists ==
    {<<>>,
     <<"p", "w", "c">>,
     <<"I", "B", "M">>,
     <<"A", "c", "m", "e", " ", "C", "o", "r", "p">>,
     <<"i", "b", "m", ",", " ", "P", "W", "C">>,
     <<"Z", "e", "d", ",", " ", ",", " ", "s", "a", "p">>,
     <<" ", "E", "r", "n", "s", "t", " ", "&", " ", "Y", "o", "u", "n", "g", " ", ",", "K", "P", "M", "G">>}

CompanyNames ==
    {<<>>, <<" ", " ">>, <<"O", "r", "a", "c", "l", "e">>, <<" ", "i", "b", "m", " ">>}

LlmOutcomes ==
    {Raise(m) : m \in ExcMsgs}
    \cup {Return(<<>>),
          Return(<<"I", "B", "M", " ", "a", "n", "d", " ", "s", "a", "p", ".">>),
          Return(<<"M", "i", "c", "r", "o", "s", "o", "f", "t">>),
          Return(<<"n", "o", "n", "e", " ", "k", "n", "o", "w", "n">>)}

HandlerAnswers ==
    FailingAnswers \cup EmptyAnswers \cup {Answer(Return(BaseInfo), Return(BaseTable))}

\* the provider's answers to the metrics lookups of one search, read cyclically
SearchProviders ==
    {<<Answer(Return(BaseInfo), Return(BaseTable))>>,
     <<Answer(Return(<<>>), Return(BaseTable))>>,
     <<Answer(Raise(<<"Read timed out.">>), Return(BaseTable)),
       Answer(Return(BaseInfo), Return(BaseTable))>>}

SearchAnswers ==
    SeqsUpTo(InfoOutcomes, 1)
    \cup {<<Return(TradedInfo), Raise(<<"Read timed out.">>)>>,
          <<Return(<<>>), Return(TradedInfo), Return(TradedInfo)>>}

PostFinancialMetrics ==
    /\ Idle
    /\ \E ticker \in Tickers, provider \in HandlerAnswers :
          Leave("POST /api/financial-metrics",
                [request |-> [ticker |-> ticker], provider |-> provider],
                get_financial_metrics([ticker |-> ticker], provider))

PostTradingStatus ==
    /\ Idle
    /\ \E company_names \in CompanyLists, answers \in SeqsUpTo(InfoOutcomes, MaxAnswers) :
          Leave("POST /api/trading-status",
                [request |-> [company_names |-> company_names], answers |-> answers],
                check_trading_status([company_names |-> company_names], answers))

PostFindContracted ==
    /\ Idle
    /\ \E company_name \in CompanyNames, llm \in LlmOutcomes :
          Leave("POST /api/find-contracted",
                [request |-> [company_name |-> company_name], llm |-> llm],
                find_contracted([company_name |-> company_name], llm))

PostSearch ==
    /\ Idle
    /\ \E company_name \in CompanyNames, llm \in LlmOutcomes,
          answers \in SearchAnswers, providers \in SearchProviders :
          Leave("POST /api/search",
                [request |-> [company_name |-> company_name], llm |-> llm,
                 answers |-> answers, providers |-> providers],
                search_company_analysis([company_name |-> company_name], llm,
                                        answers, providers))

NextRest ==
    \/ PostFinancialMetrics
    \/ PostTradingStatus
    \/ PostFindContracted
    \/ PostSearch

SpecRest == Init /\ [][NextRest]_vars

(***************************************************************************)
(* The two remaining tools called directly, as the agent calls them.       *)
(***************************************************************************)
TradingLists ==
    CompanyLists
    \cup {<<"P", "W", "C">>,
          <<"e", "y">>,
          <<"K", "p", "m", "g", ",", "Z", "e", "d">>,
          <<"i", "b", "m", ",", " ", "i", "b", "m">>,
          <<"A", "b", " ", "C", "o", ",", " ", "E", "Y">>,
          <<"Z", "e", "d", ",", "T", "e", "s", "l", "a">>,
          <<",", "A", "c", "m", "e", " ", "C", "o", "r", "p", ",", " ", ",", "Z", "e", "d", ",">>}

LlmTexts ==
    {<<>>,
     <<"I", "B", "M", " ", "a", "n", "d", " ", "s", "a", "p", ".">>,
     <<"M", "i", "c", "r", "o", "s", "o", "f", "t">>,
     <<"n", "o", "n", "e", " ", "k", "n", "o", "w", "n">>,
     <<" ", "1", ".", " ", "O", "r", "a", "c", "l", "e", "\n", "2", ".", " ", "P", "w", "C", " ", "\n">>}

SearchedNames ==
    CompanyNames
    \cup {<<"A", "c", "m", "e", " ", "C", "o", "r", "p">>, <<"'", "x", "'">>, <<"P", "w", "C">>}
    \cup SeqsUpTo({"a", "B", " "}, 3)

CheckPublicTradingStatus ==
    /\ Idle
    /\ \E company_names \in TradingLists,
          answers \in SeqsUpTo(InfoOutcomes, MaxTradingAnswers) :
          Leave("check_public_trading_status",
                [company_names |-> company_names, answers |-> answers],
                check_public_trading_status(company_names, answers))

FindContractedCompanies ==
    /\ Idle
    /\ \E company_name \in SearchedNames,
          llm \in {Raise(m) : m \in ExcMsgs} \cup {Return(t) : t \in LlmTexts} :
          Leave("find_contracted_companies",
                [company_name |-> company_name, llm |-> llm],
                find_contracted_companies(company_name, llm))

NextTools ==
    \/ CheckPublicTradingStatus
    \/ FindContractedCompanies

SpecTools == Init /\ [][NextTools]_vars

\* every call the model knows
Next == NextMetrics \/ NextFormat \/ NextWeather \/ NextRest \/ NextTools

Spec == Init /\ [][Next]_vars

(***************************************************************************)
(* Properties of the REST handlers.                                        *)
(***************************************************************************)
ToolHandlers ==
    {"POST /api/financial-metrics", "POST /api/trading-status", "POST /api/find-contracted"}

\* what the tool behind the handler returned for the request at hand
ToolResult ==
    CASE op = "POST /api/financial-metrics" ->
            get_company_financial_metrics(input.request.ticker, input.provider).result
      [] op = "POST /api/trading-status" ->
            check_public_trading_status(input.request.company_names, input.answers).result
      [] op = "POST /api/find-contracted" ->
            find_contracted_companies(input.request.company_name, input.llm).result

\* C3: when the tool returns status "error" the handler answers 400 with the
\* tool's error_message; 500 is kept for unexpected exceptions, of which a
\* tool's error result is none.
C3_ToolErrorIs400 ==
    op \in ToolHandlers =>
        /\ ToolResult.status = "error" =>
              /\ result.http = "400"
              /\ result.detail = ToolResult.error_message
        /\ result.http = "500" => ToolResult.status \notin {"success", "error"}

\* C4: POST /api/search with an empty or all-blank company_name answers 400
\* "Company name cannot be empty" and calls none of the tools.
C4_EmptyNameIs400 ==
    (op = "POST /api/search" /\ strip(input.request.company_name) = <<>>) =>
        /\ result.http = "400"
        /\ result.detail = <<"Company name cannot be empty">>
        /\ log = <<>>

(***************************************************************************)
(* Properties of check_public_trading_status.                              *)
(***************************************************************************)
TradingCall == op = "check_public_trading_status"

\* the names of the list at hand: its comma-separated items, trimmed, the
\* empty ones left out
RECURSIVE NonEmpty(_)
NonEmpty(items) ==
    IF items = <<>> THEN <<>>
    ELSE (IF strip(items[1]) = <<>> THEN <<>> ELSE <<strip(items[1])>>)
         \o NonEmpty(Tail(items))

Named == NonEmpty(split(input.company_names, ","))

PrivateNames ==
    {<<"p", "w", "c">>, <<"k", "p", "m", "g">>, <<"e", "y">>,
     <<"e", "r", "n", "s", "t", " ", "&", " ", "y", "o", "u", "n", "g">>}

IsPrivateName(name) ==
    \E p \in PrivateNames :
        /\ Len(name) = Len(p)
        /\ \A i \in 1..Len(p) : name[i] = p[i] \/ name[i] = UpperChar(p[i])

\* the provider accesses made for the entry at position i
AccessesFor(i) == SelectSeq(log, LAMBDA a : a.entry = i)

\* C11: a name of the known-private list, in any casing, gets an entry with
\* is_public false, symbol null and status "Known private company"; the
\* call returns status "success" without raising and the provider is not
\* asked about that name.
C11_KnownPrivateWithoutProvider ==
    TradingCall =>
        /\ result.status = "success"
        /\ ~raised
        /\ \A n \in 1..Len(Named) :
              IsPrivateName(Named[n]) =>
                  \E i \in 1..Len(result.detailed_results) :
                      result.detailed_results[i].company = Named[n]
        /\ \A i \in 1..Len(result.detailed_results) :
              IsPrivateName(result.detailed_results[i].company) =>
                  /\ result.detailed_results[i] =
                        [company |-> result.detailed_results[i].company,
                         is_public |-> FALSE, symbol |-> None,
                         status |-> <<"Known private company">>]
                  /\ AccessesFor(i) = <<>>

C11_Witness ==
    /\ TradingCall
    /\ input.company_names =
          <<" ", "E", "r", "n", "s", "t", " ", "&", " ", "Y", "o", "u", "n", "g", " ", ",", "K", "P", "M", "G">>
    /\ Len(result.detailed_results) = 2
    /\ result.detailed_results[1].status = <<"Known private company">>
    /\ result.detailed_results[2].symbol = None
    /\ log = <<>>

\* the positions in the log of the accesses made for the entry at position i
AccessPositions(i) == {j \in 1..Len(log) : log[j].entry = i}

\* what the provider answered to the access at position j of the log
AnswerAt(j) == input.answers[((j - 1) % Len(input.answers)) + 1]

\* the provider raised on some access made for entry i
EntryRaised(i) == \E j \in AccessPositions(i) : AnswerAt(j).exc

\* the provider's answer to the last access made for entry i
LastAnswer(i) ==
    AnswerAt(CHOOSE j \in AccessPositions(i) : \A k \in AccessPositions(i) : k <= j)

HasMappedSymbol(company) ==
    /\ lower(company) \in DOMAIN symbol_mappings
    /\ symbol_mappings[lower(company)] # None

\* C12 as stated: whenever the provider raises while a company's symbol is
\* being checked, that company's entry is non-public.
C12_AnyExceptionGivesNonPublic ==
    TradingCall =>
        \A i \in 1..Len(result.detailed_results) :
            EntryRaised(i) => ~result.detailed_results[i].is_public

\* C12: a provider exception on the last query made for a company (the
\* validation of its resolved symbol, or its last heuristic guess) gives
\* that company a non-public entry; an exception on an earlier heuristic
\* guess only skips that guess.  Either way the call returns "success" with
\* one entry per name in input order, so earlier entries are kept and later
\* companies are processed, and an entry is public exactly on the strength of
\* the provider's own answer for it.
C12_ExceptionSkipsOneCompany ==
    TradingCall =>
        /\ result.status = "success"
        /\ ~raised
        /\ Len(result.detailed_results) = Len(Named)
        /\ \A i \in 1..Len(result.detailed_results) :
              LET e == result.detailed_results[i]
              IN  /\ e.company = Named[i]
                  /\ (AccessPositions(i) # {} /\ LastAnswer(i).exc) => ~e.is_public
                  /\ (HasMappedSymbol(e.company) /\ EntryRaised(i)) =>
                        /\ ~e.is_public
                        /\ Take(e.status, 1) = <<"Error checking symbol ">>
                  /\ e.is_public =>
                        /\ AccessPositions(i) # {}
                        /\ ~LastAnswer(i).exc
                        /\ Cardinality(DOMAIN LastAnswer(i).val) > 1
                  /\ (HasMappedSymbol(e.company) /\ ~LastAnswer(i).exc
                      /\ Cardinality(DOMAIN LastAnswer(i).val) > 1) => e.is_public

\* the provider raises while the first name's symbol is validated and answers
\* for the second name
C12_Witness ==
    /\ TradingCall
    /\ Len(result.detailed_results) = 2
    /\ EntryRaised(1)
    /\ ~result.detailed_results[1].is_public
    /\ Take(result.detailed_results[1].status, 1) = <<"Error checking symbol ">>
    /\ ~EntryRaised(2)
    /\ result.detailed_results[2].is_public

(***************************************************************************)
(* More properties of get_company_financial_metrics.                       *)
(***************************************************************************)
\* the attributes mapping the provider answered with
ProviderInfo == input.provider.info.val

YfMargins == {"yf_gross_margin_percent", "yf_operating_margin_percent", "yf_profit_margin_percent"}

RatioKey(f) ==
    CASE f = "yf_gross_margin_percent" -> "grossMargins"
      [] f = "yf_operating_margin_percent" -> "operatingMargins"
      [] f = "yf_profit_margin_percent" -> "profitMargins"

\* the provider supplied a ratio that is neither null nor zero
SuppliedRatio(key) ==
    /\ key \in DOMAIN ProviderInfo
    /\ ProviderInfo[key].k # "null"
    /\ ProviderInfo[key].k \in {"ratio", "num"} => ProviderInfo[key].v # 0

\* p (hundredths of a percent) is r * 100 rounded to two decimals; a ratio is
\* held in units of 0.00001, and a ratio that is not a number stays one
IsRoundedPercent(p, r) ==
    CASE r.k = "ratio" -> p.k = "pct" /\ 2 * Abs(p.v * 10 - r.v) <= 10
      [] r.k = "num" -> p = Pct(r.v * 10000)
      [] r.k = "nan" -> p = NaN
      [] OTHER -> FALSE

\* C13: in a success result each yf_*_margin_percent field is there, equal
\* to round(ratio * 100, 2) when the provider supplied a non-null, non-zero
\* ratio and null otherwise; the computed margin fields keep their own
\* values next to them.
C13_ProviderMarginsSideBySide ==
    MetricsSuccess =>
        LET fd == result.detailed_metrics
        IN  /\ \A f \in YfMargins :
                  /\ f \in DOMAIN fd
                  /\ IF SuppliedRatio(RatioKey(f))
                     THEN IsRoundedPercent(fd[f], ProviderInfo[RatioKey(f)])
                     ELSE fd[f] = None
            /\ \A g \in ComputedMargins :
                  /\ g \notin YfMargins
                  /\ g \in DOMAIN fd =>
                        IsRoundedMargin(fd[g], fd[MarginOf[g]], fd.annual_revenue)

\* a provider gross margin of 43.12 % next to a computed one of 25 %
C13_Witness ==
    /\ MetricsSuccess
    /\ SuppliedRatio("grossMargins")
    /\ ProviderInfo["grossMargins"] = Ratio(43123)
    /\ result.detailed_metrics.yf_gross_margin_percent = Pct(4312)
    /\ result.detailed_metrics.gross_profit_margin_percent = Pct(2500)
    /\ result.detailed_metrics.yf_profit_margin_percent = None

(***************************************************************************)
(* Properties of find_contracted_companies.                                *)
(***************************************************************************)
ContractedCall == op = "find_contracted_companies"

\* s ends with tail
EndsWith(s, tail) ==
    /\ Len(tail) <= Len(s)
    /\ SubSeq(s, Len(s) - Len(tail) + 1, Len(s)) = tail

\* C14: when the external call answers, the result is a success whose
\* report carries the answer text unchanged and whose company_searched is
\* the input name; when it raises, the result is an error whose message
\* holds the company name and the exception's message.  The call itself
\* never raises.
C14_ContractedReportOrError ==
    ContractedCall =>
        /\ ~raised
        /\ IF input.llm.exc
           THEN /\ result.status = "error"
                /\ Contains(result.error_message, input.company_name)
                /\ EndsWith(result.error_message, input.llm.msg)
           ELSE /\ result.status = "success"
                /\ result.company_searched = input.company_name
                /\ EndsWith(result.report, input.llm.val)
                /\ Contains(result.report, input.company_name)

\* an answer with blanks and line breaks at its ends comes through whole
C14_Witness ==
    /\ ContractedCall
    /\ ~input.llm.exc
    /\ input.company_name = <<"A", "c", "m", "e", " ", "C", "o", "r", "p">>
    /\ Len(input.llm.val) > 2
    /\ input.llm.val[1] = " "
    /\ result.status = "success"
    /\ EndsWith(result.report, input.llm.val)

\* the number x in the form json_loads reads numbers into
AsDecimal(x) ==
    CASE x.k = "num" -> Decimal(x.v < 0, Abs(x.v) \div Limb, Abs(x.v) % Limb, 0)
      [] x.k = "big" -> Decimal(x.neg, x.hi, x.lo, 0)
      [] x.k = "pct" -> Decimal(x.v < 0, (Abs(x.v) \div 100) \div Limb,
                                (Abs(x.v) \div 100) % Limb, Abs(x.v) % 100)

\* read equals the value x, as == compares them: the same string, the same
\* number; not-a-number equals nothing, itself included
SameValue(x, read) ==
    CASE x.k \in {"num", "big", "pct"} -> read = AsDecimal(x)
      [] x.k = "nan" -> FALSE
      [] OTHER -> read = x

\* C15: in a success result, reading json_data back gives, for every field
\* of detailed_metrics that is not null, exactly the value detailed_metrics
\* holds for it.
C15_JsonRoundTrip ==
    MetricsSuccess =>
        /\ DOMAIN result.json_data = DOMAIN result.detailed_metrics
        /\ \A f \in DOMAIN result.detailed_metrics :
              result.detailed_metrics[f] # None =>
                  SameValue(result.detailed_metrics[f], json_loads(result.json_data[f]))

\* the income statement the provider answered with
ProviderTable == input.provider.financials.val

\* the provider answered both lookups, and with something
Answered ==
    /\ MetricsCall
    /\ ~input.provider.info.exc
    /\ ~input.provider.financials.exc
    /\ ~empty(ProviderTable)
    /\ DOMAIN ProviderInfo # {}

\* the row is missing, or its cell in the first column is no number
Unresolvable(row) ==
    \/ row \notin DOMAIN ProviderTable.rows
    \/ ProviderTable.rows[row][1].k \in {"null", "str", "nan"}

\* what makes the call an error although the provider answered: a column
\* label that is no date, or text where an attribute should be a number
OtherFailure ==
    \/ ProviderTable.columns[1].k = "str"
    \/ \E key \in {"marketCap", "totalRevenue", "grossMargins", "operatingMargins",
                    "profitMargins"} :
          key \in DOMAIN ProviderInfo /\ ProviderInfo[key].k = "str"

\* C16 as stated: the field of every line item that cannot be resolved is
\* null.
C16_UnresolvableIsNull ==
    MetricsSuccess =>
        \A f \in DOMAIN LineItems :
            Unresolvable(LineItems[f]) => result.detailed_metrics[f] = None

\* C16: for every line item but Total Revenue, the field is null (not 0)
\* when the row is missing or its first-column cell is non-numeric or NaN;
\* annual_revenue then holds the attributes' totalRevenue instead, null when
\* that is missing.  No such cell makes the call fail.
C16_UnresolvableIsNullOrFallback ==
    Answered =>
        /\ result.status \in {"success", "error"}
        /\ ~raised
        /\ result.status = "error" => OtherFailure
        /\ result.status = "success" =>
              \A f \in DOMAIN LineItems :
                  Unresolvable(LineItems[f]) =>
                      IF f = "annual_revenue"
                      THEN result.detailed_metrics[f] =
                              (IF "totalRevenue" \in DOMAIN ProviderInfo
                               THEN ProviderInfo["totalRevenue"] ELSE None)
                      ELSE result.detailed_metrics[f] = None

\* a missing row, a NaN cell and a text cell are null while the missing
\* revenue row is made up for by the attributes
C16_Witness ==
    /\ MetricsSuccess
    /\ "Total Revenue" \notin DOMAIN ProviderTable.rows
    /\ result.detailed_metrics.annual_revenue = Num(8)
    /\ "Net Interest Income" \notin DOMAIN ProviderTable.rows
    /\ result.detailed_metrics.net_interest_income = None
    /\ ProviderTable.rows["Gross Profit"][1] = NaN
    /\ result.detailed_metrics.gross_profit = None
    /\ ProviderTable.rows["Total Expenses"][1].k = "str"
    /\ result.detailed_metrics.total_expenses = None

\* the symbols the provider was asked about for entry i, in the order asked
KeysFor(i) == [j \in 1..Len(AccessesFor(i)) |-> AccessesFor(i)[j].key]

\* where in the log the accesses for entry i begin
FirstPosition(i) == Cardinality({j \in 1..Len(log) : log[j].entry < i}) + 1

\* the guesses for a name nothing is known about: its first four
\* characters, its first three, and the first four once blanks are removed,
\* all in upper case
Guesses(company) ==
    <<SubSeq(upper(company), 1, Min(4, Len(company))),
      SubSeq(upper(company), 1, Min(3, Len(company))),
      SubSeq(remove_spaces(upper(company)), 1, Min(4, Len(remove_spaces(company))))>>

\* the provider accepts the k-th guess made for entry i
Accepts(i, k) ==
    LET info == AnswerAt(FirstPosition(i) + k - 1)
    IN  ~info.exc /\ "symbol" \in DOMAIN info.val

NoSymbolFound == <<"No public trading symbol found">>

\* C17: a name of the symbol table (in any casing) is validated with its
\* table symbol only; a name without one that is on the known-private list
\* is not looked up at all; any other name is guessed at with its first
\* four characters, its first three, then its first four without blanks, the
\* first guess the provider accepts is the one validated and used, and the
\* entry says "No public trading symbol found" when none is accepted.
C17_ResolutionOrder ==
    TradingCall =>
        \A i \in 1..Len(result.detailed_results) :
            LET e == result.detailed_results[i]
                g == Guesses(e.company)
            IN  IF HasMappedSymbol(e.company)
                THEN /\ KeysFor(i) = <<symbol_mappings[lower(e.company)].v>>
                     /\ e.symbol \in {None, symbol_mappings[lower(e.company)]}
                     /\ e.status \notin {NoSymbolFound, <<"Known private company">>}
                ELSE IF IsPrivateName(e.company)
                THEN /\ KeysFor(i) = <<>>
                     /\ e.status = <<"Known private company">>
                ELSE IF \E k \in 1..3 : Accepts(i, k)
                THEN LET k == CHOOSE k \in 1..3 :
                                 Accepts(i, k) /\ \A h \in 1..(k - 1) : ~Accepts(i, h)
                     IN  /\ KeysFor(i) = SubSeq(g, 1, k) \o <<g[k]>>
                         /\ e.symbol \in {None, Str(g[k])}
                         /\ e.is_public => e.symbol = Str(g[k])
                         /\ e.status # NoSymbolFound
                ELSE /\ KeysFor(i) = g
                     /\ e = [company |-> e.company, is_public |-> FALSE,
                             symbol |-> None, status |-> NoSymbolFound]

\* the provider turns down "AB C" and accepts "AB ", which is then validated
\* and used
C17_Witness ==
    /\ TradingCall
    /\ Len(result.detailed_results) = 2
    /\ result.detailed_results[1].company = <<"A", "b", " ", "C", "o">>
    /\ KeysFor(1) = <<<<"A", "B", " ", "C">>, <<"A", "B", " ">>, <<"A", "B", " ">>>>
    /\ result.detailed_results[1].is_public
    /\ result.detailed_results[1].symbol = Str(<<"A", "B", " ">>)
    /\ KeysFor(2) = <<>>

\* the provider has a value for the attribute
Has(key) == key \in DOMAIN ProviderInfo /\ ProviderInfo[key] # None

\* C18: in a success result company_name is the provider's long name when
\* it has one, otherwise its short name when it has one, otherwise the ticker
\* as given; it is never null.
C18_CompanyNameFallback ==
    MetricsSuccess =>
        /\ result.detailed_metrics.company_name # None
        /\ result.detailed_metrics.company_name =
              (IF Has("longName") THEN ProviderInfo["longName"]
               ELSE IF Has("shortName") THEN ProviderInfo["shortName"]
               ELSE Str(input.stock_ticker))

\* the statement has a Total Revenue row whose first cell is a number
RevenueResolvable ==
    /\ "Total Revenue" \in DOMAIN ProviderTable.rows
    /\ ProviderTable.rows["Total Revenue"][1].k = "num"

\* C19: in a success result annual_revenue is the statement's Total Revenue
\* of the most recent column whenever that is a number, and only otherwise
\* the attributes' totalRevenue; it is null only when both are missing; the
\* computed margins are taken over this same annual_revenue.
C19_RevenueFromStatementFirst ==
    MetricsSuccess =>
        LET fd == result.detailed_metrics
        IN  /\ IF RevenueResolvable
               THEN fd.annual_revenue = ProviderTable.rows["Total Revenue"][1]
               ELSE fd.annual_revenue =
                       (IF "totalRevenue" \in DOMAIN ProviderInfo
                        THEN ProviderInfo["totalRevenue"] ELSE None)
            /\ fd.annual_revenue = None => (~RevenueResolvable /\ ~Has("totalRevenue"))
            /\ \A g \in ComputedMargins \cap DOMAIN fd :
                  IsRoundedMargin(fd[g], fd[MarginOf[g]], fd.annual_revenue)

\* how many entries say is_public
PublicEntries == Cardinality({i \in 1..Len(result.detailed_results) :
                                 result.detailed_results[i].is_public})

\* C20: detailed_results has exactly one entry for each name of the list
\* that is not empty once trimmed, in the order of the list, skipping the
\* empty ones and keeping repeated ones; public_count and private_count add
\* up to the number of entries and public_count counts those with is_public.
C20_OneEntryPerName ==
    TradingCall =>
        /\ Len(result.detailed_results) = Len(Named)
        /\ \A i \in 1..Len(Named) : result.detailed_results[i].company = Named[i]
        /\ result.public_count + result.private_count = Len(result.detailed_results)
        /\ result.public_count = PublicEntries

\* a list with empty items at both ends and in the middle
C20_Witness ==
    /\ TradingCall
    /\ input.company_names =
          <<",", "A", "c", "m", "e", " ", "C", "o", "r", "p", ",", " ", ",", "Z", "e", "d", ",">>
    /\ Len(result.detailed_results) = 2
    /\ result.detailed_results[1].company = <<"A", "c", "m", "e", " ", "C", "o", "r", "p">>
    /\ result.detailed_results[2].company = <<"Z", "e", "d">>
    /\ result.public_count = 1
    /\ result.private_count = 1

\* C21: in every entry of detailed_results the symbol is non-null exactly
\* when is_public is true, and an entry with is_public true also carries
\* official_name and exchange and has status "Publicly traded".
C21_SymbolIffPublic ==
    TradingCall =>
        \A i \in 1..Len(result.detailed_results) :
            LET e == result.detailed_results[i]
            IN  /\ (e.symbol # None) <=> e.is_public
                /\ e.is_public =>
                      /\ {"official_name", "exchange"} \subseteq DOMAIN e
                      /\ e.status = <<"Publicly traded">>

\* the statement has the row and its first cell is a number, zero included
IsNumberCell(row) ==
    /\ row \in DOMAIN ProviderTable.rows
    /\ ProviderTable.rows[row][1].k = "num"

\* C22: a line item whose cell in the most recent column is a number, zero
\* included, is reported with that number: a zero is not turned into null,
\* does not bring in the revenue fallback and does not remove a margin.
C22_ZeroIsKept ==
    MetricsSuccess =>
        LET fd == result.detailed_metrics
        IN  /\ \A f \in DOMAIN LineItems :
                  IsNumberCell(LineItems[f]) =>
                      fd[f] = ProviderTable.rows[LineItems[f]][1]
            /\ \A g \in ComputedMargins :
                  (/\ IsNumberCell("Total Revenue")
                   /\ ProviderTable.rows["Total Revenue"][1].v > 0
                   /\ IsNumberCell(LineItems[MarginOf[g]])) => g \in DOMAIN fd

(***************************************************************************)
(* Properties of POST /api/search.                                         *)
(***************************************************************************)
SearchSuccess == op = "POST /api/search" /\ result.http = "200"

\* the name occurs in the text, letter case set aside
Occurs(name, text) ==
    \E at \in 0..(Len(text) - Len(name)) :
        \A j \in 1..Len(name) : LowerChar(text[at + j]) = LowerChar(name[j])

\* the positions, in the candidate list, of the candidates the report names
Mentioned ==
    {i \in 1..Len(example_companies) :
        Occurs(example_companies[i], result.body.contracted_companies_report)}

\* the k-th smallest element of a set of numbers
Kth(S, k) == CHOOSE i \in S : Cardinality({j \in S : j < i}) = k - 1

\* C23: in a successful answer of POST /api/search contracted_companies is
\* not empty and holds, in candidate-list order, exactly the candidates
\* whose name occurs in the report whatever the letter case, or the sample
\* of four when none occurs; total_companies_found is its length.
C23_ContractedFromCandidates ==
    SearchSuccess =>
        LET found == result.body.contracted_companies
        IN  /\ found # <<>>
            /\ result.body.total_companies_found = Len(found)
            /\ IF Mentioned = {}
               THEN found = <<<<"A", "c", "c", "e", "n", "t", "u", "r", "e">>,
                              <<"D", "e", "l", "o", "i", "t", "t", "e">>,
                              <<"I", "B", "M">>,
                              <<"M", "i", "c", "r", "o", "s", "o", "f", "t">>>>
               ELSE /\ Len(found) = Cardinality(Mentioned)
                    /\ \A k \in 1..Len(found) :
                          found[k] = example_companies[Kth(Mentioned, k)]

\* the answer names IBM and, in lower case, SAP
C23_Witness ==
    /\ SearchSuccess
    /\ input.llm.val = <<"I", "B", "M", " ", "a", "n", "d", " ", "s", "a", "p", ".">>
    /\ result.body.contracted_companies = <<<<"I", "B", "M">>, <<"S", "A", "P">>>>
    /\ result.body.total_companies_found = 2

\* the public entries of the trading-status details, in order
PublicDetails == public_of(result.body.trading_status_details)

\* the provider's answers to the k-th metrics lookup of the search
ProviderFor(k) == input.providers[((k - 1) % Len(input.providers)) + 1]

\* the metrics of the k-th public company were obtained
MetricsObtained(k) ==
    get_company_financial_metrics(PublicDetails[k].symbol.v, ProviderFor(k)).result.status
        = "success"

Obtained == {k \in 1..Len(PublicDetails) : MetricsObtained(k)}

====
